---- MODULE Spec2Model ----
(***************************************************************************)
(* The books API of advanced-api-project (api/models.py,                   *)
(* api/serializers.py, api/views.py, api/urls.py): the Book table, the     *)
(* BookSerializer validation and the five generic views, as a state        *)
(* machine over the stored books.                                          *)
(*                                                                         *)
(* A handler is modelled in two parts, as the code runs it: everything up  *)
(* to the storage write (authentication, permission, get_object,           *)
(* serializer.is_valid) and the storage write itself (serializer.save,     *)
(* instance.delete).  Spec runs the two parts of a request in one step     *)
(* (requests served one after the other); ConcSpec lets another request    *)
(* run between them.  ListSpec serves list requests with query strings     *)
(* (filters, search, ordering, page) from a table that is already filled.  *)
(*                                                                         *)
(* The blog of django_blog (blog/models.py, blog/forms.py, blog/views.py): *)
(* users, posts and comments and one client session.  AuthSpec serves the  *)
(* login, logout and profile views, BlogSpec the post and comment views,   *)
(* CascadeSpec the deletes that cascade (a post, a user, an author of the  *)
(* books API).  ShelfSpec serves the four permission-guarded views of      *)
(* bookshelf/views.py.                                                     *)
(***************************************************************************)
EXTENDS Integers, Sequences, FiniteSets, TLC

VARIABLES
    books,      \* Book.objects: the rows of the Book table
    next_id,    \* the next value of Book's auto-increment primary key
    inflight,   \* per worker: the request it is serving and where it stands
    authors,    \* Author.objects: the ids of the rows of the Author table
    users,      \* blog: User.objects
    posts,      \* blog: Post.objects
    comments,   \* blog: Comment.objects
    pks,        \* blog, bookshelf: per table, the next auto-increment key
    session,    \* blog: the user id the client's session is logged in as
    shelf,      \* bookshelf: Book.objects
    reply       \* blog, bookshelf: the last request and the response to it

\* The state of the blog and of the bookshelf project.
sitevars == <<authors, users, posts, comments, pks, session, shelf, reply>>

vars == <<books, next_id, inflight, authors, users, posts, comments, pks,
          session, shelf, reply>>

-----------------------------------------------------------------------------
(* Bounds and constants *)

\* Largest primary key the auto-increment counter hands out.
MaxId == 2

\* The year date.today() falls in.
Today == 2024

\* The oldest accepted publication year (serializers.py, "if value < 1000").
MinYear == 1000

\* settings PAGE_SIZE, as the tests state it ("Page size is 10").
PageSize == 10

\* Most books of a store that list queries are served from, the full shelf
\* apart.
MaxBooks == 2

\* Most parameters of one list query.
MaxParams == 2

\* The characters texts are written in, in code point order.
Chars == <<" ", "A", "B", "a", "b", "c", "d", "z">>

Abc == <<"a", "b", "c", "d">>

\* Titles a payload may carry, as sequences of characters: "A b" and "b a".
Titles == {<<"A", " ", "b">>, <<"b", " ", "a">>}

\* Author.objects: the ids of the rows of the Author table.
Authors == 1..(PageSize + 1)

\* Author.name of the author with id a: "c", "B", then "daa", "dab", ...
\* The second author's name sorts before the first one's, as the fixture's
\* 'George R.R. Martin' does before 'J.K. Rowling'.
AuthorName(a) ==
    IF a = 1 THEN <<"c">>
    ELSE IF a = 2 THEN <<"B">>
    ELSE <<"d", Abc[((a - 3) \div 3) + 1], Abc[((a - 3) % 3) + 1]>>

\* The authors a payload names.
PayloadAuthors == {1, 2}

\* Years a payload may carry: both bounds of the accepted range and the
\* first value beyond each.
Years == {MinYear - 1, MinYear, Today, Today + 1}

BookFields == {"title", "publication_year", "author"}

Tokens == {"none", "invalid", "valid"}

Workers == {"w1", "w2"}

\* The pk of a URL without <int:pk> (books/update/, books/delete/).
NoPk == 0

\* Primary keys a URL may carry: every key the table can hold and one more.
UrlPks == 1..(MaxId + 1)

-----------------------------------------------------------------------------
(* Request payloads *)

\* Author ids a payload may name: two authors and one id without a row.
AuthorRefs == PayloadAuthors \cup {PageSize + 2}

CompletePayloads ==
    [title : Titles, publication_year : Years, author : AuthorRefs]

Restrict(p, F) == [f \in F |-> p[f]]

\* A payload carries any of the three fields, down to none.
Payloads == {Restrict(p, F) : p \in CompletePayloads, F \in SUBSET BookFields}

EmptyBody == Restrict([title |-> <<"A">>], {})

-----------------------------------------------------------------------------
(* api/models.py: Book *)

\* serializer.instance of a serializer built without an instance.
None == [id |-> 0]

\* Mutant of SamePair: the constraint also spans publication_year.
SamePair_WithYear(a, b) ==
    /\ a.title = b.title
    /\ a.author = b.author
    /\ a.publication_year = b.publication_year

\* Meta.unique_together = ['title', 'author']: the columns of the constraint.
SamePair(a, b) == a.title = b.title /\ a.author = b.author

\* The table's unique constraint: row would repeat the (title, author) of
\* another row (IntegrityError at the INSERT or UPDATE).
unique_together(store, row) ==
    \E b \in store : b.id # row.id /\ SamePair(b, row)

\* Model.save() of a row that carries a primary key: UPDATE it, and INSERT it
\* when the UPDATE matched no row.
Model_save(store, row) == {b \in store : b.id # row.id} \cup {row}

\* Model.delete(): DELETE ... WHERE id = row.id.
Model_delete(store, row) == {b \in store : b.id # row.id}

-----------------------------------------------------------------------------
(* api/serializers.py: BookSerializer *)

\* Mutant of validate_publication_year: the current year counts as future.
validate_publication_year_OffByOne(value, current_year) ==
    IF value >= current_year
    THEN [ok |-> FALSE, error |-> "cannot be in the future"]
    ELSE IF value < MinYear
         THEN [ok |-> FALSE, error |-> "must be after year 1000"]
         ELSE [ok |-> TRUE, value |-> value]

validate_publication_year(value, current_year) ==
    IF value > current_year
    THEN [ok |-> FALSE, error |-> "cannot be in the future"]
    ELSE IF value < MinYear
         THEN [ok |-> FALSE, error |-> "must be after year 1000"]
         ELSE [ok |-> TRUE, value |-> value]

\* Mutant of run_validation: a partial update runs no field validation.
run_validation_CreateOnly(data, partial, f) ==
    IF partial THEN ""
    ELSE IF f \notin DOMAIN data THEN "required"
    ELSE IF f = "publication_year"
         THEN (LET r == validate_publication_year(data[f], Today)
               IN  IF r.ok THEN "" ELSE r.error)
         ELSE IF f = "author" /\ data[f] \notin Authors
              THEN "does_not_exist"
              ELSE ""

\* Field-level validation of one field: "" when the field passes or, in a
\* partial update, is absent.
run_validation(data, partial, f) ==
    IF f \notin DOMAIN data
    THEN (IF partial THEN "" ELSE "required")
    ELSE IF f = "publication_year"
         THEN (LET r == validate_publication_year(data[f], Today)
               IN  IF r.ok THEN "" ELSE r.error)
         ELSE IF f = "author" /\ data[f] \notin Authors
              THEN "does_not_exist"
              ELSE ""

\* The field -> message mapping of the fields that failed.
to_internal_value(data, partial) ==
    LET bad == {f \in BookFields : run_validation(data, partial, f) # ""}
    IN  [f \in bad |-> run_validation(data, partial, f)]

\* Mutant of Merge: a publication_year the payload leaves out is reset to the
\* current year.
Merge_YearDefault(instance, attrs) ==
    [f \in BookFields \cup {"id"} |->
        IF f \in DOMAIN attrs THEN attrs[f]
        ELSE IF f = "publication_year" THEN Today ELSE instance[f]]

\* The instance with the validated attributes set on it (ModelSerializer
\* update); for a create the validated attributes are the whole row.
Merge(instance, attrs) ==
    [f \in BookFields \cup {"id"} |->
        IF f \in DOMAIN attrs THEN attrs[f] ELSE instance[f]]

\* The validator ModelSerializer derives from Meta.unique_together: another
\* row than the instance holds the (title, author) the write would produce.
UniqueTogetherValidator(store, instance, attrs) ==
    LET row == Merge(instance, attrs)
    IN  \E b \in store : b.id # instance.id /\ SamePair(b, row)

\* Object-level validation: returns the data as it got it.
validate(data) == data

\* serializer.is_valid(): field-level validation of every field, then the
\* validators, then validate().
is_valid(store, instance, data, partial) ==
    LET errors == to_internal_value(data, partial)
    IN  IF DOMAIN errors # {}
        THEN [valid |-> FALSE, errors |-> errors]
        ELSE IF UniqueTogetherValidator(store, instance, data)
             THEN [valid |-> FALSE,
                   errors |-> [non_field_errors |-> "unique"]]
             ELSE [valid |-> TRUE, validated_data |-> validate(data)]

-----------------------------------------------------------------------------
(* api/views.py: what a handler returns *)

Response(status, body) ==
    [kind |-> "response", status |-> status, body |-> body]

\* The handler has reached its storage write: call names it, row is the row
\* it writes (or deletes).
StorageCall(call, row) == [kind |-> "storage", call |-> call, row |-> row]

\* TokenAuthentication: the user of a valid token, AnonymousUser when the
\* request carries no token, AuthenticationFailed for any other token.
authenticate(token) ==
    IF token = "valid" THEN "user"
    ELSE IF token = "none" THEN "anonymous" ELSE "failed"

IsAuthenticated(method, user) == user = "user"

\* Mutant of IsAuthenticatedOrReadOnly: reads need an identity too.
IsAuthenticatedOrReadOnly_NoRead(method, user) == user = "user"

IsAuthenticatedOrReadOnly(method, user) == method = "GET" \/ user = "user"

\* Mutant of permission_classes: the views name no permission class.
permission_classes_AllowAny(view, method, user) == TRUE

\* permission_classes of the view.
permission_classes(view, method, user) ==
    IF view \in {"BookListView", "BookDetailView"}
    THEN IsAuthenticatedOrReadOnly(method, user)
    ELSE IsAuthenticated(method, user)

\* APIView.initial(): authentication, then the permission check, both before
\* the handler runs.
initial(request) ==
    LET user == authenticate(request.token)
    IN  IF user = "failed"
        THEN Response(401, [detail |-> "Invalid token."])
        ELSE IF ~permission_classes(request.view, request.method, user)
             THEN Response(401, [detail |-> "Authentication credentials were not provided."])
             ELSE [kind |-> "handler"]

\* GenericAPIView.get_object(): asserts that the URL carries pk, then looks
\* the row up (Http404 when there is none).
get_object(store, pk) ==
    IF pk = NoPk
    THEN Response(500, [exception |-> "AssertionError"])
    ELSE IF \E b \in store : b.id = pk
         THEN [kind |-> "instance",
               instance |-> CHOOSE b \in store : b.id = pk]
         ELSE Response(404, [detail |-> "Not found."])

\* BookCreateView.create() up to perform_create.
create(store, request) ==
    LET serializer == is_valid(store, None, request.data, FALSE)
    IN  IF serializer.valid
        THEN StorageCall("perform_create",
                         Merge(None, serializer.validated_data))
        ELSE Response(400, [message |-> "Failed to create book",
                            errors |-> serializer.errors])

\* Mutant of perform_create: the response is built from the data as it was
\* before the save, without the primary key the save assigns.
perform_create_NoId(store, id, row) ==
    LET book == [row EXCEPT !.id = id]
    IN  IF unique_together(store, book)
        THEN [store |-> store, next |-> id,
              response |-> Response(500, [exception |-> "IntegrityError"])]
        ELSE [store |-> store \cup {book}, next |-> id + 1,
              response |-> Response(201, [message |-> "Book created successfully",
                                          book |-> row])]

\* BookCreateView.perform_create(): serializer.save() inserts the row under
\* the next primary key.
perform_create(store, id, row) ==
    LET book == [row EXCEPT !.id = id]
    IN  IF unique_together(store, book)
        THEN [store |-> store, next |-> id,
              response |-> Response(500, [exception |-> "IntegrityError"])]
        ELSE [store |-> store \cup {book}, next |-> id + 1,
              response |-> Response(201, [message |-> "Book created successfully",
                                          book |-> book])]

\* BookUpdateView.update() up to perform_update.
update(store, request) ==
    LET partial == request.method = "PATCH"
        found == get_object(store, request.pk)
    IN  IF found.kind = "response" THEN found
        ELSE LET serializer ==
                     is_valid(store, found.instance, request.data, partial)
             IN  IF serializer.valid
                 THEN StorageCall("perform_update",
                                  Merge(found.instance,
                                        serializer.validated_data))
                 ELSE Response(400, [message |-> "Failed to update book",
                                     errors |-> serializer.errors])

\* Mutant of perform_update: the serializer is never saved.
perform_update_NoSave(store, id, row) ==
    [store |-> store, next |-> id,
     response |-> Response(200, [message |-> "Book updated successfully",
                                 book |-> row])]

\* BookUpdateView.perform_update(): serializer.save() saves the instance.
perform_update(store, id, row) ==
    IF unique_together(store, row)
    THEN [store |-> store, next |-> id,
          response |-> Response(500, [exception |-> "IntegrityError"])]
    ELSE [store |-> Model_save(store, row), next |-> id,
          response |-> Response(200, [message |-> "Book updated successfully",
                                      book |-> row])]

\* BookDeleteView.destroy() up to perform_destroy.
destroy(store, request) ==
    LET found == get_object(store, request.pk)
    IN  IF found.kind = "response" THEN found
        ELSE StorageCall("perform_destroy", found.instance)

\* Mutant of perform_destroy: the book is serialized after the delete, when
\* the instance has lost its primary key.
perform_destroy_SerializedAfter(store, id, row) ==
    [store |-> Model_delete(store, row), next |-> id,
     response |-> Response(200, [message |-> "Book deleted successfully",
                                 deleted_book |-> [row EXCEPT !.id = 0]])]

\* BookDeleteView.perform_destroy() and the response destroy() builds from
\* the data it serialized before the delete.
perform_destroy(store, id, row) ==
    [store |-> Model_delete(store, row), next |-> id,
     response |-> Response(200, [message |-> "Book deleted successfully",
                                 deleted_book |-> row])]

\* BookDetailView (RetrieveAPIView.retrieve).
retrieve(store, request) ==
    LET found == get_object(store, request.pk)
    IN  IF found.kind = "response" THEN found
        ELSE Response(200, found.instance)

\* The orders a queryset ordered by ['-publication_year'] can come back in:
\* newest first, rows of the same year in any order.
Ordered(store) ==
    {s \in [1..Cardinality(store) -> store] :
        /\ \A i, j \in DOMAIN s : i # j => s[i] # s[j]
        /\ \A i, j \in DOMAIN s :
              i < j => s[i].publication_year >= s[j].publication_year}

-----------------------------------------------------------------------------
(* api/views.py: BookListView, its filter backends and its paginator *)

\* The position of character c in code point order.
Code(c) == CHOOSE i \in DOMAIN Chars : Chars[i] = c

\* The lower-case form of a character.
Lower(c) == IF c = "A" THEN "a" ELSE IF c = "B" THEN "b" ELSE c

\* Mutant of icontains: the comparison keeps the case of the letters.
icontains_CaseSensitive(text, term) ==
    \E i \in 0..(Len(text) - Len(term)) :
        \A j \in 1..Len(term) : text[i + j] = term[j]

\* The icontains lookup: term occurs in text, letter case apart.
icontains(text, term) ==
    \E i \in 0..(Len(text) - Len(term)) :
        \A j \in 1..Len(term) : Lower(text[i + j]) = Lower(term[j])

\* ORDER BY on a text column: s sorts before t, character by character.
TextLess(s, t) ==
    \E i \in 1..(Len(t)) :
        /\ \A j \in 1..(i - 1) : j <= Len(s) /\ s[j] = t[j]
        /\ (i > Len(s) \/ Code(s[i]) < Code(t[i]))

\* str.split(): the words of a text, the spaces between them dropped.
RECURSIVE split(_)
split(text) ==
    IF text = <<>> THEN <<>>
    ELSE IF Head(text) = " " THEN split(Tail(text))
    ELSE LET n == CHOOSE k \in 1..Len(text) :
                     /\ \A j \in 1..k : text[j] # " "
                     /\ (k = Len(text) \/ text[k + 1] = " ")
         IN  <<SubSeq(text, 1, n)>> \o split(SubSeq(text, n + 1, Len(text)))

\* SearchFilter.get_search_terms(): the words of the search parameter, none
\* when the request carries no search parameter.
get_search_terms(query) ==
    IF "search" \in DOMAIN query THEN split(query.search) ELSE <<>>

\* Mutant of BookFilter: publication_year__gte compares with >.
BookFilter_StrictGte(query, b) ==
    /\ "title" \in DOMAIN query => b.title = query.title
    /\ "author" \in DOMAIN query => b.author = query.author
    /\ "publication_year" \in DOMAIN query =>
          b.publication_year = query.publication_year
    /\ "publication_year__gte" \in DOMAIN query =>
          b.publication_year > query.publication_year__gte
    /\ "publication_year__lte" \in DOMAIN query =>
          b.publication_year <= query.publication_year__lte
    /\ "title__icontains" \in DOMAIN query =>
          icontains(b.title, query.title__icontains)

\* BookFilter: book b passes every filter the query carries a value for.
BookFilter(query, b) ==
    /\ "title" \in DOMAIN query => b.title = query.title
    /\ "author" \in DOMAIN query => b.author = query.author
    /\ "publication_year" \in DOMAIN query =>
          b.publication_year = query.publication_year
    /\ "publication_year__gte" \in DOMAIN query =>
          b.publication_year >= query.publication_year__gte
    /\ "publication_year__lte" \in DOMAIN query =>
          b.publication_year <= query.publication_year__lte
    /\ "title__icontains" \in DOMAIN query =>
          icontains(b.title, query.title__icontains)

\* Mutant of SearchFilter: the search is skipped when the query carries a
\* field filter.
SearchFilter_SkippedWithFilters(query, b) ==
    LET terms == get_search_terms(query)
    IN  \/ DOMAIN query \cap BookFields # {}
        \/ \A k \in DOMAIN terms :
               \/ icontains(b.title, terms[k])
               \/ icontains(AuthorName(b.author), terms[k])

\* SearchFilter over search_fields = ['title', 'author__name']: every search
\* term occurs in one of the fields.
SearchFilter(query, b) ==
    LET terms == get_search_terms(query)
    IN  \A k \in DOMAIN terms :
            \/ icontains(b.title, terms[k])
            \/ icontains(AuthorName(b.author), terms[k])

\* ordering_fields
ordering_fields == {"title", "publication_year", "author"}

\* Mutant of get_ordering: the field of the parameter is not checked against
\* ordering_fields.
get_ordering_Unchecked(query) ==
    IF "ordering" \in DOMAIN query
    THEN query.ordering
    ELSE <<"-", "publication_year">>

\* OrderingFilter.get_ordering(): the ordering parameter when its field is
\* one of ordering_fields, the view's ordering = ['-publication_year']
\* otherwise.  An ordering is the field name, after "-" when descending.
get_ordering(query) ==
    IF /\ "ordering" \in DOMAIN query
       /\ query.ordering[Len(query.ordering)] \in ordering_fields
    THEN query.ordering
    ELSE <<"-", "publication_year">>

\* ORDER BY field: row a sorts before row b.  A foreign key sorts by the
\* related model's Meta.ordering, which for Author is ['name'].
KeyLess(a, b, field) ==
    IF field = "title" THEN TextLess(a.title, b.title)
    ELSE IF field = "publication_year"
         THEN a.publication_year < b.publication_year
         ELSE IF field = "author"
              THEN TextLess(AuthorName(a.author), AuthorName(b.author))
              ELSE a.id < b.id

Precedes(a, b, ordering) ==
    IF Head(ordering) = "-"
    THEN KeyLess(b, a, ordering[Len(ordering)])
    ELSE KeyLess(a, b, ordering[Len(ordering)])

\* queryset.order_by(ordering): the sequences the rows can come back in,
\* rows that the ordering does not tell apart in any order.
RECURSIVE order_by(_, _)
order_by(rows, ordering) ==
    IF rows = {} THEN {<<>>}
    ELSE UNION {{<<b>> \o s : s \in order_by(rows \ {b}, ordering)} :
                   b \in {x \in rows :
                             \A y \in rows : ~Precedes(y, x, ordering)}}

\* Mutant of filter_queryset: a parameter that names no filter is a filter
\* that no book passes.
filter_queryset_Strict(store, query) ==
    order_by({b \in store : /\ "utm_source" \notin DOMAIN query
                            /\ BookFilter(query, b)
                            /\ SearchFilter(query, b)},
             get_ordering(query))

\* filter_queryset(): DjangoFilterBackend, then SearchFilter, then
\* OrderingFilter.
filter_queryset(store, query) ==
    order_by({b \in store : BookFilter(query, b) /\ SearchFilter(query, b)},
             get_ordering(query))

\* Number of pages of n rows; one page when there is no row.
num_pages(n) ==
    IF n = 0 THEN 1 ELSE (n + PageSize - 1) \div PageSize

\* The paginator: the page the query asks for, the first one by default,
\* with the total count and the numbers of the next and previous pages
\* (0 when there is none); 404 when there is no such page.
paginate_queryset(results, query) ==
    LET n == Len(results)
        page == IF "page" \in DOMAIN query THEN query.page ELSE 1
        last == IF page * PageSize < n THEN page * PageSize ELSE n
    IN  IF page < 1 \/ page > num_pages(n)
        THEN Response(404, [detail |-> "Invalid page."])
        ELSE Response(200,
                 [count |-> n,
                  next |-> IF page < num_pages(n) THEN page + 1 ELSE 0,
                  previous |-> IF page > 1 THEN page - 1 ELSE 0,
                  results |-> SubSeq(results, (page - 1) * PageSize + 1, last)])

\* Mutant of list: the view has no paginator and returns every row.
list_Unpaginated(store, request) ==
    {Response(200, [count |-> Len(results), next |-> 0, previous |-> 0,
                    results |-> results]) :
        results \in filter_queryset(store, request.query)}

\* BookListView (ListAPIView.list): the responses the request can get, one
\* for each order the database can return the rows in.
list(store, request) ==
    {paginate_queryset(results, request.query) :
        results \in filter_queryset(store, request.query)}

\* The handler of the request's view, after initial() passed.
handler(store, request) ==
    IF request.view = "BookCreateView" THEN create(store, request)
    ELSE IF request.view = "BookUpdateView" THEN update(store, request)
    ELSE IF request.view = "BookDeleteView" THEN destroy(store, request)
    ELSE retrieve(store, request)

\* Mutant of dispatch: the record is looked up before initial() runs.
dispatch_LookupFirst(store, request) ==
    LET found == get_object(store, request.pk)
        checked == initial(request)
    IN  IF /\ request.view \in {"BookUpdateView", "BookDeleteView"}
           /\ found.kind = "response"
        THEN found
        ELSE IF checked.kind = "response" THEN checked
             ELSE handler(store, request)

\* APIView.dispatch(): initial(), then the handler.
dispatch(store, request) ==
    LET checked == initial(request)
    IN  IF checked.kind = "response" THEN checked
        ELSE handler(store, request)

\* The storage write a handler was suspended at.
storage(store, id, o) ==
    IF o.call = "perform_create" THEN perform_create(store, id, o.row)
    ELSE IF o.call = "perform_update" THEN perform_update(store, id, o.row)
    ELSE perform_destroy(store, id, o.row)

-----------------------------------------------------------------------------
(* api/urls.py: the requests the routes accept *)

Request(view, method, token, pk, data) ==
    [view |-> view, method |-> method, token |-> token, pk |-> pk,
     data |-> data]

\* A GET of books/ with the query string query.
ListRequest(token, query) ==
    [view |-> "BookListView", method |-> "GET", token |-> token,
     pk |-> NoPk, data |-> EmptyBody, query |-> query]

\* books/ without a query string
ListRequests == {ListRequest(t, EmptyBody) : t \in Tokens}

\* The values a query string may give each parameter.  utm_source is not a
\* parameter of the view.
SearchTerms ==
    {<<"a">>, <<"A">>, <<"a", " ", "b">>, <<"c">>, <<"z">>}

Orderings ==
    {<<f>> : f \in ordering_fields \cup {"id"}}
        \cup {<<"-", f>> : f \in ordering_fields}

\* The parameters a query string may carry.
ParamNames ==
    <<"title", "author", "publication_year", "publication_year__gte",
      "publication_year__lte", "title__icontains", "search", "ordering",
      "page", "utm_source">>

ParamValues(name) ==
    CASE name = "title" -> Titles
      [] name = "author" -> PayloadAuthors
      [] name \in {"publication_year", "publication_year__gte",
                   "publication_year__lte"} -> {MinYear, Today}
      [] name = "title__icontains" -> {<<"a">>, <<"B">>}
      [] name = "search" -> SearchTerms
      [] name = "ordering" -> Orderings
      [] name = "page" -> 1..2
      [] name = "utm_source" -> {"x"}

\* The query strings of up to MaxParams of the first n parameters.
RECURSIVE QueriesOver(_)
QueriesOver(n) ==
    IF n = 0 THEN {EmptyBody}
    ELSE LET shorter == QueriesOver(n - 1)
             name == ParamNames[n]
         IN  shorter \cup
             {[k \in DOMAIN q \cup {name} |-> IF k = name THEN v ELSE q[k]] :
                 q \in {x \in shorter : Cardinality(DOMAIN x) < MaxParams},
                 v \in ParamValues(name)}

\* A query string carries up to MaxParams of the parameters.
Queries == QueriesOver(Len(ParamNames))

\* books/?...
QueryRequests == {ListRequest("none", q) : q \in Queries}

\* books/<int:pk>/
DetailRequests == {Request("BookDetailView", "GET", t, pk, EmptyBody) :
                      t \in Tokens, pk \in UrlPks}

\* books/create/
CreateRequests == {Request("BookCreateView", "POST", t, NoPk, d) :
                      t \in Tokens, d \in Payloads}

\* books/<int:pk>/update/ and books/update/
UpdateRequests ==
    {Request("BookUpdateView", m, t, pk, d) :
        m \in {"PUT", "PATCH"}, t \in Tokens,
        pk \in UrlPks \cup {NoPk}, d \in Payloads}

\* books/<int:pk>/delete/ and books/delete/
DeleteRequests == {Request("BookDeleteView", "DELETE", t, pk, EmptyBody) :
                      t \in Tokens, pk \in UrlPks \cup {NoPk}}

-----------------------------------------------------------------------------
(* The state machine *)

Idle == [pc |-> "idle"]

\* The worker holds the response to request, about to be returned.
Responded(request, response) ==
    [pc |-> "responded", request |-> request, status |-> response.status,
     body |-> response.body]

\* The worker is suspended at the storage write o of request's handler.
Suspended(request, o) ==
    [pc |-> "storage", request |-> request, call |-> o.call, row |-> o.row]

AllIdle == \A w \in Workers : inflight[w].pc = "idle"

NoneResponded == \A w \in Workers : inflight[w].pc # "responded"

\* The other projects' tables: all authors stored, nothing else.
NoSite ==
    /\ authors = Authors
    /\ users = {} /\ posts = {} /\ comments = {} /\ shelf = {}
    /\ pks = [table \in {"Post", "Comment", "Book"} |-> 1]
    /\ session = 0
    /\ reply = [status |-> 0]

Init ==
    /\ books = {}
    /\ next_id = 1
    /\ inflight = [w \in Workers |-> Idle]
    /\ NoSite

\* Worker w serves request from dispatch to response with no other request
\* in between.
Serve(w, request) ==
    LET o == dispatch(books, request)
    IN  IF o.kind = "response"
        THEN /\ inflight' = [inflight EXCEPT ![w] = Responded(request, o)]
             /\ UNCHANGED <<books, next_id>>
             /\ UNCHANGED sitevars
        ELSE LET r == storage(books, next_id, o)
             IN  /\ o.call = "perform_create" => next_id <= MaxId
                 /\ books' = r.store
                 /\ next_id' = r.next
                 /\ inflight' = [inflight EXCEPT
                                    ![w] = Responded(request, r.response)]
                 /\ UNCHANGED sitevars

\* Worker w serves a request of the list view.
ServeList(w, request) ==
    LET checked == initial(request)
    IN  /\ \E response \in IF checked.kind = "response"
                            THEN {checked} ELSE list(books, request) :
              inflight' = [inflight EXCEPT ![w] = Responded(request, response)]
        /\ UNCHANGED <<books, next_id>>
        /\ UNCHANGED sitevars

BookListView(w) ==
    /\ AllIdle
    /\ \E request \in ListRequests : ServeList(w, request)

BookDetailView(w) ==
    /\ AllIdle
    /\ \E request \in DetailRequests : Serve(w, request)

BookCreateView(w) ==
    /\ AllIdle
    /\ \E request \in CreateRequests : Serve(w, request)

BookUpdateView(w) ==
    /\ AllIdle
    /\ \E request \in UpdateRequests : Serve(w, request)

BookDeleteView(w) ==
    /\ AllIdle
    /\ \E request \in DeleteRequests : Serve(w, request)

\* The response goes back to the client and the worker is free again.
Return(w) ==
    /\ inflight[w].pc = "responded"
    /\ inflight' = [inflight EXCEPT ![w] = Idle]
    /\ UNCHANGED <<books, next_id>>
    /\ UNCHANGED sitevars

\* Requests served one at a time: one worker takes them all.
Next ==
    \E w \in {"w1"} :
        \/ BookListView(w)
        \/ BookDetailView(w)
        \/ BookCreateView(w)
        \/ BookUpdateView(w)
        \/ BookDeleteView(w)
        \/ Return(w)

Spec == Init /\ [][Next]_vars

-----------------------------------------------------------------------------
(* List queries over stored books *)

\* Rows of the two titles, two authors and two years, one primary key for
\* each (title, author).
FixtureRows ==
    {[id |-> (IF t = <<"A", " ", "b">> THEN 0 ELSE 2) + a, title |-> t,
      publication_year |-> y, author |-> a] :
        t \in Titles, y \in {MinYear, Today}, a \in PayloadAuthors}

\* The full shelf: one book more than a page holds, each of another author
\* and title ("aa", "ba", "ca", "ab", ...), the two oldest of the same year.
Shelf ==
    {[id |-> i,
      title |-> <<Abc[((i - 1) % 3) + 1], Abc[((i - 1) \div 3) + 1]>>,
      publication_year |-> IF i = 1 THEN MinYear ELSE MinYear + i - 2,
      author |-> i] : i \in 1..(PageSize + 1)}

\* The stores the list queries are served from: up to MaxBooks rows that
\* have each its primary key and respect unique_together, and the full shelf.
Fixtures ==
    {S \in SUBSET FixtureRows :
        /\ Cardinality(S) <= MaxBooks
        /\ \A a \in S : \A b \in S : a.id = b.id => a = b
        /\ \A a \in S : ~unique_together(S, a)} \cup {Shelf}

ListInit ==
    /\ books \in Fixtures
    /\ next_id = PageSize + 2
    /\ inflight = [w \in Workers |-> Idle]
    /\ NoSite

BookListQuery(w) ==
    /\ AllIdle
    /\ \E request \in QueryRequests : ServeList(w, request)

ListNext ==
    \E w \in {"w1"} :
        \/ BookListQuery(w)
        \/ Return(w)

ListSpec == ListInit /\ [][ListNext]_vars

-----------------------------------------------------------------------------
(* Requests interleaved at their storage writes *)

\* The write requests of authenticated clients that carry every field.
ConcPayloads ==
    [title : Titles, publication_year : {MinYear, Today},
     author : PayloadAuthors]

ConcRequests(requests) ==
    {r \in requests : r.token = "valid"
                      /\ r.data \in ConcPayloads \cup {EmptyBody}}

\* Primary keys the creates suspended at their INSERT will take.
PendingCreates ==
    Cardinality({w \in Workers : /\ inflight[w].pc = "storage"
                                 /\ inflight[w].call = "perform_create"})

\* Worker w runs request's handler up to its storage write, or to the
\* response when the handler returns before it.
Dispatch(w, request) ==
    LET o == dispatch(books, request)
    IN  /\ IF o.kind = "response"
           THEN inflight' = [inflight EXCEPT ![w] = Responded(request, o)]
           ELSE /\ o.call = "perform_create" =>
                      next_id + PendingCreates <= MaxId
                /\ inflight' = [inflight EXCEPT ![w] = Suspended(request, o)]
        /\ UNCHANGED <<books, next_id>>
        /\ UNCHANGED sitevars

Post(w) ==
    /\ inflight[w].pc = "idle" /\ NoneResponded
    /\ \E request \in ConcRequests(CreateRequests) : Dispatch(w, request)

PutPatch(w) ==
    /\ inflight[w].pc = "idle" /\ NoneResponded
    /\ \E request \in ConcRequests(UpdateRequests) : Dispatch(w, request)

Delete(w) ==
    /\ inflight[w].pc = "idle" /\ NoneResponded
    /\ \E request \in ConcRequests(DeleteRequests) : Dispatch(w, request)

\* Worker w's storage write runs and the handler returns its response.
StorageWrite(w) ==
    /\ inflight[w].pc = "storage" /\ NoneResponded
    /\ LET r == storage(books, next_id, inflight[w])
       IN  /\ books' = r.store
           /\ next_id' = r.next
           /\ inflight' = [inflight EXCEPT
                              ![w] = Responded(inflight[w].request, r.response)]
           /\ UNCHANGED sitevars

ConcNext ==
    \E w \in Workers :
        \/ Post(w)
        \/ PutPatch(w)
        \/ Delete(w)
        \/ StorageWrite(w)
        \/ Return(w)

ConcSpec == Init /\ [][ConcNext]_vars

-----------------------------------------------------------------------------
(* Properties *)

\* The responses about to be returned.
Responses ==
    {inflight[w] : w \in {v \in Workers : inflight[v].pc = "responded"}}

\* Worker w gets the response to its request in this step.
Answers(w) == inflight[w].pc # "responded" /\ inflight'[w].pc = "responded"

WriteMethods == {"POST", "PUT", "PATCH", "DELETE"}

PksOf(store) == {b.id : b \in store}

\* C1: a create, update or delete request that carries no token or an
\* invalid token is answered with 401 and the step that answers it leaves
\* the stored books as they were.
C1_UnauthenticatedWriteRejected ==
    [][\A w \in Workers :
          (/\ Answers(w)
           /\ inflight'[w].request.method \in WriteMethods
           /\ inflight'[w].request.token # "valid")
          => (inflight'[w].status = 401 /\ books' = books)]_vars

\* C1 witness: a DELETE with an invalid token for a stored book got 401 and
\* the book is still stored.
C1_Witness ==
    \E r \in Responses :
        /\ r.request.method = "DELETE"
        /\ r.request.token = "invalid"
        /\ r.status = 401
        /\ r.request.pk \in PksOf(books)

\* The errors a response carries: its body's errors mapping when it is a
\* 400, none otherwise.
ErrorsOf(r) ==
    IF r.status = 400 /\ "errors" \in DOMAIN r.body
    THEN r.body.errors
    ELSE EmptyBody

\* The response is that of a handler that ran the serializer on the payload.
Validated(r) ==
    /\ r.request.method \in {"POST", "PUT", "PATCH"}
    /\ r.status \in {200, 201, 400}

\* C2: validate_publication_year accepts a year y, unchanged, exactly when
\* 1000 <= y <= current year; above the current year it rejects with the
\* 'cannot be in the future' message, below 1000 with the 'must be after
\* year 1000' message.
C2_YearAcceptedIffInRange ==
    \A r \in Responses :
        (Validated(r) /\ "publication_year" \in DOMAIN r.request.data) =>
            LET y == r.request.data.publication_year
                errors == ErrorsOf(r)
            IN  /\ ("publication_year" \in DOMAIN errors)
                       <=> ~(1000 <= y /\ y <= Today)
                /\ y > Today =>
                       errors.publication_year = "cannot be in the future"
                /\ y < 1000 =>
                       errors.publication_year = "must be after year 1000"
                /\ r.status \in {200, 201} => r.body.book.publication_year = y

\* C2 witness: a create that carries the current year itself was accepted and
\* the book holds that year.
C2_Witness ==
    \E r \in Responses :
        /\ r.request.method = "POST"
        /\ r.status = 201
        /\ r.request.data.publication_year = Today
        /\ r.body.book.publication_year = Today

\* C3: no two stored books have the same (title, author) pair.
C3_NoDuplicatePair ==
    \A a \in books : \A b \in books :
        (a.title = b.title /\ a.author = b.author) => a = b

\* C3 witness: with a book stored, a request that would repeat its pair was
\* refused by the uniqueness rule, and two books with the same title and
\* different authors are stored.
C3_Witness ==
    /\ \E r \in Responses :
          /\ r.status = 400
          /\ "non_field_errors" \in DOMAIN r.body.errors
    /\ \E a \in books : \E b \in books :
          a.title = b.title /\ a.author # b.author

\* The row an authenticated create or update request would store, when the
\* store and the payload determine one: a create or PUT with every field, or
\* a PATCH, of a stored book for the updates.
HasResultingRow(store, request) ==
    /\ request.token = "valid"
    /\ request.view \in {"BookCreateView", "BookUpdateView"}
    /\ request.view = "BookUpdateView" => request.pk \in PksOf(store)
    /\ request.method # "PATCH" => DOMAIN request.data = BookFields

ResultingRow(store, request) ==
    IF request.view = "BookCreateView"
    THEN Merge(None, request.data)
    ELSE Merge(CHOOSE b \in store : b.id = request.pk, request.data)

\* Another stored book holds row's (title, author).
Duplicates(store, row) ==
    \E b \in store :
        b.id # row.id /\ b.title = row.title /\ b.author = row.author

\* C4: an authenticated create or update whose resulting (title, author)
\* would duplicate another stored book is answered with 400 and an errors
\* mapping and leaves the store unchanged, also when the duplicate was
\* stored by a request that ran between this request's validation and its
\* storage write.
C4_DuplicateAnsweredWith400 ==
    [][\A w \in Workers :
          LET request == inflight'[w].request
              row == IF inflight[w].pc = "storage"
                     THEN inflight[w].row
                     ELSE ResultingRow(books, request)
          IN  (/\ Answers(w)
               /\ \/ /\ inflight[w].pc = "storage"
                     /\ inflight[w].call # "perform_destroy"
                  \/ /\ inflight[w].pc = "idle"
                     /\ HasResultingRow(books, request)
               /\ Duplicates(books, row))
              => (/\ inflight'[w].status = 400
                  /\ "errors" \in DOMAIN inflight'[w].body
                  /\ books' = books)]_vars

\* The payload passes BookSerializer's rules against store: every field
\* present, the year in range, the author a stored author, the pair free.
ValidForCreate(store, data) ==
    /\ DOMAIN data = BookFields
    /\ 1000 <= data.publication_year /\ data.publication_year <= Today
    /\ data.author \in Authors
    /\ ~\E b \in store : b.title = data.title /\ b.author = data.author

\* C5: an authenticated create with a valid payload returns 201 with
\* {message, book} and adds exactly one book, with the submitted title,
\* publication_year and author and a new id that the response echoes;
\* with any other payload it returns 400 with {message, errors} and the
\* stored books are unchanged.
C5_CreateOutcome ==
    [][\A w \in Workers :
          LET r == inflight'[w]
              data == r.request.data
          IN  (/\ Answers(w)
               /\ r.request.method = "POST"
               /\ r.request.token = "valid")
              => IF ValidForCreate(books, data)
                 THEN /\ r.status = 201
                      /\ DOMAIN r.body = {"message", "book"}
                      /\ r.body.book.title = data.title
                      /\ r.body.book.publication_year = data.publication_year
                      /\ r.body.book.author = data.author
                      /\ r.body.book.id \notin PksOf(books)
                      /\ r.body.book \notin books
                      /\ books' = books \cup {r.body.book}
                 ELSE /\ r.status = 400
                      /\ DOMAIN r.body = {"message", "errors"}
                      /\ DOMAIN r.body.errors # {}
                      /\ books' = books]_vars

\* C5 witness: a second book was created, the response echoes it with its
\* new id and it is stored.
C5_Witness ==
    \E r \in Responses :
        /\ r.request.method = "POST"
        /\ r.status = 201
        /\ r.body.book.id = 2
        /\ r.body.book \in books
        /\ Cardinality(books) = 2

\* The payload fails the validation of an update: a year out of range, or
\* for PUT a missing field.
InvalidForUpdate(request) ==
    \/ /\ "publication_year" \in DOMAIN request.data
       /\ ~(/\ 1000 <= request.data.publication_year
            /\ request.data.publication_year <= Today)
    \/ request.method = "PUT" /\ DOMAIN request.data # BookFields

\* The payload passes every rule of an update of instance against store.
ValidForUpdate(store, instance, request) ==
    /\ ~InvalidForUpdate(request)
    /\ "author" \in DOMAIN request.data => request.data.author \in Authors
    /\ ~Duplicates(store, Merge(instance, request.data))

\* C6: an authenticated PUT or PATCH on a stored book returns 400 with
\* {message, errors} and leaves every stored book unchanged when its payload
\* fails validation; a valid one returns 200 with the updated book, which is
\* then the stored book, every other book unchanged.
C6_UpdateOutcome ==
    [][\A w \in Workers :
          LET r == inflight'[w]
          IN  (/\ Answers(w)
               /\ r.request.method \in {"PUT", "PATCH"}
               /\ r.request.token = "valid"
               /\ r.request.pk \in PksOf(books))
              => LET instance == CHOOSE b \in books : b.id = r.request.pk
                 IN  /\ InvalidForUpdate(r.request) =>
                           /\ r.status = 400
                           /\ DOMAIN r.body = {"message", "errors"}
                           /\ books' = books
                     /\ ValidForUpdate(books, instance, r.request) =>
                           /\ r.status = 200
                           /\ DOMAIN r.body = {"message", "book"}
                           /\ r.body.book = Merge(instance, r.request.data)
                           /\ books' = (books \ {instance}) \cup {r.body.book}
                     /\ r.status \in {200, 400}
                     /\ r.status = 400 => books' = books]_vars

\* C6 witness: a PATCH of the year alone was answered 200 and the stored book
\* of that id is the returned one, beside another stored book.
C6_Witness ==
    \E r \in Responses :
        /\ r.request.method = "PATCH"
        /\ DOMAIN r.request.data = {"publication_year"}
        /\ r.status = 200
        /\ r.body.book \in books
        /\ r.body.book.id = r.request.pk
        /\ Cardinality(books) = 2

\* C7: every stored book's publication_year is within 1000..current year,
\* whatever creates, PUTs, PATCHes and deletes were served.
C7_StoredYearsInRange ==
    \A b \in books : 1000 <= b.publication_year /\ b.publication_year <= Today

\* C7 witness: a PATCH that carried a year out of range for a stored book was
\* refused with an error on that field.
C7_Witness ==
    \E r \in Responses :
        /\ r.request.method = "PATCH"
        /\ r.request.pk \in PksOf(books)
        /\ r.status = 400
        /\ "publication_year" \in DOMAIN r.body.errors

\* C8: on the update and delete endpoints a request without a valid token
\* gets 401 whether or not the id in its URL is stored, and a request with a
\* valid token for an id that is not stored gets 404 and changes nothing.
C8_AuthenticationBeforeLookup ==
    [][\A w \in Workers :
          LET r == inflight'[w]
          IN  (/\ Answers(w)
               /\ r.request.view \in {"BookUpdateView", "BookDeleteView"}
               /\ r.request.pk # NoPk)
              => /\ r.request.token # "valid" => r.status = 401
                 /\ (r.request.token = "valid"
                        /\ r.request.pk \notin PksOf(books))
                       => (r.status = 404 /\ books' = books)]_vars

\* C8 witness: a DELETE without a token for an id that is not stored got 401,
\* not 404, while another book is stored.
C8_Witness ==
    \E r \in Responses :
        /\ r.request.method = "DELETE"
        /\ r.request.token = "none"
        /\ r.request.pk # NoPk
        /\ r.request.pk \notin PksOf(books)
        /\ r.status = 401
        /\ books # {}

\* C9: on every update and delete route of api/urls.py, the ones without an
\* id included, a PUT or PATCH ends with 200, 400, 401 or 404 and a DELETE
\* with 200, 401 or 404.
C9_EveryRouteAnswered ==
    \A r \in Responses :
        /\ r.request.view = "BookUpdateView" =>
              r.status \in {200, 400, 401, 404}
        /\ r.request.view = "BookDeleteView" => r.status \in {200, 401, 404}

\* The body of a list response over store: every stored book, newest first.
ListBodies(store) ==
    {[count |-> Len(s), next |-> 0, previous |-> 0, results |-> s] :
        s \in Ordered(store)}

\* C10: a GET without credentials is served as one with a valid token: the
\* list endpoint returns 200 with the stored books, the detail endpoint 200
\* with the stored book of that id, or 404 when no book has it; and no GET
\* changes the stored books.
C10_ReadsArePublic ==
    [][\A w \in Workers :
          LET r == inflight'[w]
          IN  (/\ Answers(w)
               /\ r.request.method = "GET")
              => /\ books' = books
                 /\ r.request.token \in {"none", "valid"} =>
                       IF r.request.view = "BookListView"
                       THEN r.status = 200 /\ r.body \in ListBodies(books)
                       ELSE IF r.request.pk \in PksOf(books)
                            THEN /\ r.status = 200
                                 /\ r.body \in books
                                 /\ r.body.id = r.request.pk
                            ELSE r.status = 404]_vars

\* C10 witness: a list request without credentials got 200 with both stored
\* books.
C10_Witness ==
    \E r \in Responses :
        /\ r.request.view = "BookListView"
        /\ r.request.token = "none"
        /\ r.status = 200
        /\ r.body.count = 2
        /\ {r.body.results[i] : i \in 1..2} = books

\* C11: an authenticated DELETE of a stored book returns 200 with
\* deleted_book equal to the book as it was stored, removes that book and no
\* other; an id once deleted is never stored again, and an authenticated
\* GET, PUT, PATCH or DELETE of an id that is not stored returns 404.
C11_DeleteOutcome ==
    [][/\ \A id \in 1..MaxId :
             (id < next_id /\ id \notin PksOf(books)) => id \notin PksOf(books')
        /\ \A w \in Workers :
             LET r == inflight'[w]
             IN  /\ (/\ Answers(w)
                     /\ r.request.method = "DELETE"
                     /\ r.request.token = "valid"
                     /\ r.request.pk \in PksOf(books))
                    => LET instance == CHOOSE b \in books : b.id = r.request.pk
                       IN  /\ r.status = 200
                           /\ r.body.deleted_book = instance
                           /\ DOMAIN r.body.deleted_book = BookFields \cup {"id"}
                           /\ books' = books \ {instance}
                 /\ (/\ Answers(w)
                     /\ r.request.token = "valid"
                     /\ r.request.pk # NoPk
                     /\ r.request.pk < next_id
                     /\ r.request.pk \notin PksOf(books))
                    => r.status = 404]_vars

\* C11 witness: the first of two stored books was deleted, the response
\* carries it and the second book alone is still stored.
C11_Witness ==
    \E r \in Responses :
        /\ r.request.method = "DELETE"
        /\ r.status = 200
        /\ r.body.deleted_book.id = 1
        /\ r.body.deleted_book \notin books
        /\ PksOf(books) = {2}

\* C12: a PATCH answered with 200 leaves every field of its book that the
\* payload does not carry, and every other stored book, as it was.
C12_PatchFrame ==
    [][\A w \in Workers :
          LET r == inflight'[w]
          IN  (/\ Answers(w)
               /\ r.request.method = "PATCH"
               /\ r.status = 200)
              => /\ PksOf(books') = PksOf(books)
                 /\ \A old \in books : \A new \in books' :
                       old.id = new.id =>
                          IF old.id = r.request.pk
                          THEN \A f \in BookFields \ DOMAIN r.request.data :
                                  new[f] = old[f]
                          ELSE new = old]_vars

\* C12 witness: a PATCH that carried the title alone changed the title of a
\* book whose year is not the current year, beside another stored book.
C12_Witness ==
    \E r \in Responses :
        /\ r.request.method = "PATCH"
        /\ DOMAIN r.request.data = {"title"}
        /\ r.status = 200
        /\ r.body.book \in books
        /\ r.body.book.publication_year = MinYear
        /\ Cardinality(books) = 2

-----------------------------------------------------------------------------
(* Properties of the list queries *)

\* The responses of the list view about to be returned with status 200.
Listings ==
    {r \in Responses : r.request.view = "BookListView" /\ r.status = 200}

\* The rows of a page.
RowsOf(r) == {r.body.results[i] : i \in DOMAIN r.body.results}

\* The query without parameter k.
Without(query, k) == Restrict(query, DOMAIN query \ {k})

\* The bodies the responses to request can carry.
Bodies(store, request) == {o.body : o \in list(store, request)}

\* C13: every list response, whatever parameters its query carries, holds
\* at most 10 rows, and its count is the number of stored books that match
\* the query's filters and search: the same number on every page.
C13_PageSizeAndCount ==
    \A r \in Listings :
        LET matching == {b \in books : /\ BookFilter(r.request.query, b)
                                       /\ SearchFilter(r.request.query, b)}
        IN  /\ Len(r.body.results) <= 10
            /\ r.body.count = Cardinality(matching)
            /\ RowsOf(r) \subseteq matching
            /\ \A o \in list(books, r.request) :
                  o.status = 200 /\ o.body.count = r.body.count
            /\ \A p \in 1..3 :
                  \A o \in list(books,
                                ListRequest("none",
                                    [q \in DOMAIN r.request.query \cup {"page"}
                                        |-> IF q = "page" THEN p
                                            ELSE r.request.query[q]])) :
                      o.status = 200 => o.body.count = r.body.count

\* C13 witness: the second page of a query that eleven books match holds
\* the one row the first page had no room for, and counts eleven.
C13_Witness ==
    \E r \in Listings :
        /\ "page" \in DOMAIN r.request.query
        /\ r.request.query.page = 2
        /\ "publication_year__gte" \in DOMAIN r.request.query
        /\ r.body.count = 11
        /\ Len(r.body.results) = 1
        /\ r.body.previous = 1

\* The stored books that satisfy every field filter of the query: equality
\* for title, author and publication_year, >= for publication_year__gte,
\* <= for publication_year__lte.
FieldMatches(store, query) ==
    {b \in store :
        /\ \A f \in DOMAIN query \cap BookFields : b[f] = query[f]
        /\ "publication_year__gte" \in DOMAIN query =>
              query.publication_year__gte <= b.publication_year
        /\ "publication_year__lte" \in DOMAIN query =>
              b.publication_year <= query.publication_year__lte}

\* C14: the rows a list response returns all satisfy every field filter of
\* its query, and when the query carries no search and no title__icontains
\* the response counts exactly the stored books that satisfy them and, on a
\* single page, returns every one of them.
C14_FieldFilters ==
    \A r \in Listings :
        LET query == r.request.query
            expected == FieldMatches(books, query)
        IN  /\ RowsOf(r) \subseteq expected
            /\ DOMAIN query \cap {"search", "title__icontains"} = {} =>
                  /\ r.body.count = Cardinality(expected)
                  /\ r.body.count <= PageSize => RowsOf(r) = expected

\* C14 witness: a query with both bounds of the year returned the one book
\* of the range and left out a stored book of a later year.
C14_Witness ==
    \E r \in Listings :
        /\ DOMAIN r.request.query =
              {"publication_year__gte", "publication_year__lte"}
        /\ r.request.query.publication_year__gte = MinYear
        /\ r.request.query.publication_year__lte = MinYear
        /\ r.body.count = 1
        /\ \E b \in books : b.publication_year = Today

CaseVariants(term) ==
    {t \in SearchTerms :
        /\ Len(t) = Len(term)
        /\ \A i \in 1..Len(t) : Lower(t[i]) = Lower(term[i])}

\* C16: the response to a list request with a search term is one the same
\* request can get with the term in any other letter case.
C16_SearchIgnoresCase ==
    \A r \in Listings :
        "search" \in DOMAIN r.request.query =>
            \A t \in CaseVariants(r.request.query.search) :
                r.body \in Bodies(books,
                                  ListRequest(r.request.token,
                                      [r.request.query EXCEPT !.search = t]))

\* C16 witness: the search for "a" returned both stored books, one of which
\* has the letter in upper case only.
C16_Witness ==
    \E r \in Listings :
        /\ DOMAIN r.request.query = {"search"}
        /\ r.request.query.search = <<"a">>
        /\ \E b \in RowsOf(r) : b.title = <<"A", " ", "b">>
        /\ r.body.count = 2

\* The text in lower case.
Fold(text) == [i \in 1..Len(text) |-> Lower(text[i])]

\* term is a substring of text, letter case apart.
Occurs(term, text) ==
    \E i \in 1..(Len(text) + 1) : \E j \in (i - 1)..Len(text) :
        SubSeq(Fold(text), i, j) = Fold(term)

\* C17: a list request with search term t and no field filter returns, and
\* counts, exactly the stored books that have t as a substring of their
\* title or of their author's name, none when no book has it; without a
\* search term it counts every stored book.
C17_SearchIsSubstringMatch ==
    \A r \in Listings :
        LET query == r.request.query
            expected ==
                IF "search" \in DOMAIN query
                THEN {b \in books :
                        \/ Occurs(query.search, b.title)
                        \/ Occurs(query.search, AuthorName(b.author))}
                ELSE books
        IN  DOMAIN query \subseteq {"search", "ordering", "page", "utm_source"}
            => /\ r.body.count = Cardinality(expected)
               /\ RowsOf(r) \subseteq expected

\* v comes before w: numbers by value, texts character by character.
Below(v, w, field) ==
    IF field = "title" THEN TextLess(v, w) ELSE v < w

\* C18: with ordering=f, f one of title, publication_year and author, the
\* values of f run non-decreasing through the results, and non-increasing
\* with ordering=-f; the response counts what the request without the
\* ordering counts.
C18_SortedByRequestedField ==
    \A r \in Listings :
        LET query == r.request.query
            results == r.body.results
        IN  (/\ "ordering" \in DOMAIN query
             /\ query.ordering[Len(query.ordering)] \in ordering_fields)
            => LET field == query.ordering[Len(query.ordering)]
               IN  /\ \A i \in DOMAIN results : \A j \in DOMAIN results :
                         i < j =>
                            IF Head(query.ordering) = "-"
                            THEN ~Below(results[i][field],
                                        results[j][field], field)
                            ELSE ~Below(results[j][field],
                                        results[i][field], field)
                   /\ \A o \in list(books,
                                     ListRequest(r.request.token,
                                                 Without(query, "ordering"))) :
                         o.body.count = r.body.count

SortField(query) ==
    IF /\ "ordering" \in DOMAIN query
       /\ query.ordering[Len(query.ordering)]
             \in {"title", "publication_year", "author"}
    THEN query.ordering[Len(query.ordering)]
    ELSE "publication_year"

\* C20: in every list response two books with the same value of the sort
\* field are in ascending order of title.
C20_TiesByTitle ==
    \A r \in Listings :
        LET results == r.body.results
            field == SortField(r.request.query)
        IN  \A i \in DOMAIN results : \A j \in DOMAIN results :
                (i < j /\ results[i][field] = results[j][field])
                => ~TextLess(results[j].title, results[i].title)

\* The books a list request with this query returns over all its pages.
Matched(store, query) ==
    UNION {{results[i] : i \in DOMAIN results} :
              results \in filter_queryset(store, query)}

\* The parameters that select books: the filters and the search.
SelectingParams ==
    {"title", "author", "publication_year", "publication_year__gte",
     "publication_year__lte", "title__icontains", "search"}

\* C21: the books a list request returns are those that each of its
\* filters and its search, supplied alone, return; its count is their
\* number, and the same books and count come back without the ordering
\* parameter.
C21_FiltersCompose ==
    \A r \in Listings :
        LET query == r.request.query
            each == {Matched(books, Restrict(query, {k})) :
                        k \in DOMAIN query \cap SelectingParams}
            common == {b \in books : \A M \in each : b \in M}
        IN  /\ r.body.count = Cardinality(common)
            /\ RowsOf(r) \subseteq common
            /\ Matched(books, query) = common
            /\ Matched(books, Without(query, "ordering")) = common

\* C21 witness: of two stored books that the year filter alone returns, a
\* query with that filter and a search term returned the one the term
\* matches.
C21_Witness ==
    \E r \in Listings :
        /\ DOMAIN r.request.query = {"publication_year", "search"}
        /\ Cardinality(Matched(books, Restrict(r.request.query,
                                               {"publication_year"}))) = 2
        /\ r.body.count = 1

\* C28: a book id that was handed out and is no longer stored, its DELETE
\* answered with 200, is never stored again, whatever requests are
\* interleaved with the delete.
C28_DeletedStaysDeleted ==
    [][\A id \in 1..MaxId :
          (id < next_id /\ id \notin PksOf(books)) => id \notin PksOf(books')]_vars

\* The query with its page parameter set to p.
WithPage(query, p) ==
    [k \in DOMAIN query \cup {"page"} |-> IF k = "page" THEN p ELSE query[k]]

\* The page a query asks for.
PageOf(query) == IF "page" \in DOMAIN query THEN query.page ELSE 1

\* C30: for one store and one choice of filters, search and ordering, the
\* pages hold every matching book once: a page is full unless it is the
\* last one, and no book of a page is on any other page of the same query.
C30_PagesPartition ==
    \A r \in Listings :
        LET query == r.request.query
            rest == r.body.count - (PageOf(query) - 1) * 10
        IN  /\ Len(r.body.results) = IF rest < 10 THEN rest ELSE 10
            /\ Cardinality(RowsOf(r)) = Len(r.body.results)
            /\ \A p \in (1..3) \ {PageOf(query)} :
                  \A o \in list(books,
                                ListRequest(r.request.token,
                                            WithPage(query, p))) :
                      o.status = 200 => RowsOf(o) \cap RowsOf(r) = {}

-----------------------------------------------------------------------------
(* django_blog: users, the session and the account views *)

\* request.user of a client that is not logged in (AnonymousUser, no pk).
AnonymousUser == 0

\* A form field that was left out or left empty.
Blank == ""

Usernames == {"user1", "user2", "user3"}

Emails == {"user1@example.com", "user2@example.com", "updated@example.com"}

Passwords == {"Pass123!", "wrongpassword"}

\* The two users the tests create with User.objects.create_user.
TestUsers ==
    {[id |-> 1, username |-> "user1", email |-> "user1@example.com",
      password |-> "Pass123!"],
     [id |-> 2, username |-> "user2", email |-> "user2@example.com",
      password |-> "Pass123!"]}

\* request.user: the stored user the session is logged in as.
request_user ==
    IF \E u \in users : u.id = session THEN session ELSE AnonymousUser

\* A response of a blog or bookshelf view: messages are the texts given to
\* django.contrib.messages, errors the texts of the form's ValidationErrors,
\* object the pk of the record the view created, changed or deleted.
HttpResponse(status, location, messages, errors, object) ==
    [status |-> status, location |-> location, messages |-> messages,
     errors |-> errors, object |-> object]

render == HttpResponse(200, "", {}, {}, 0)

redirect(to) == HttpResponse(302, to, {}, {}, 0)

\* What a view hands back: its response and the tables and session it
\* leaves behind; a table that got a new row has used up its next key.
Outcome(resp, u, p, c, s) ==
    [response |-> resp, users |-> u, posts |-> p, comments |-> c,
     session |-> s,
     pks |-> [pks EXCEPT
                !["Post"] = IF \A x \in p : x.id < @ THEN @ ELSE @ + 1,
                !["Comment"] = IF \A x \in c : x.id < @ THEN @ ELSE @ + 1]]

\* A view that answers resp and writes nothing.
ReadOnly(resp) == Outcome(resp, users, posts, comments, session)

\* authenticate(username=..., password=...): the id of the user with these
\* credentials, AnonymousUser for none.
auth_authenticate(username, password) ==
    LET found == {u \in users : u.username = username
                                /\ u.password = password}
    IN  IF found = {} THEN AnonymousUser ELSE (CHOOSE u \in found : TRUE).id

\* Mutant of user_login: the form's username is enough to log in.
user_login_NoPassword(request) ==
    IF request_user # AnonymousUser
    THEN ReadOnly(redirect("blog-home"))
    ELSE IF request.method = "POST"
    THEN LET named == {u \in users : u.username = request.data.username}
         IN  IF named # {}
             THEN Outcome(HttpResponse(302, "blog-home", {"Welcome back"},
                                       {}, 0),
                          users, posts, comments,
                          (CHOOSE u \in named : TRUE).id)
             ELSE ReadOnly(HttpResponse(200, "",
                              {"Invalid username or password."}, {}, 0))
    ELSE ReadOnly(render)

\* user_login: a logged-in client is sent home; a POST whose form
\* authenticates logs the session in and redirects to ?next= or home; any
\* other POST renders the page with the error message.
user_login(request) ==
    IF request_user # AnonymousUser
    THEN ReadOnly(redirect("blog-home"))
    ELSE IF request.method = "POST"
    THEN LET user == auth_authenticate(request.data.username,
                                       request.data.password)
         IN  IF user # AnonymousUser
             THEN Outcome(HttpResponse(302,
                              IF request.next # Blank THEN request.next
                                                      ELSE "blog-home",
                              {"Welcome back"}, {}, 0),
                          users, posts, comments, user)
             ELSE ReadOnly(HttpResponse(200, "",
                              {"Invalid username or password."}, {}, 0))
    ELSE ReadOnly(render)

\* @login_required(login_url='login') and LoginRequiredMixin: a client that
\* is not logged in is redirected to the login page.
login_required(view_outcome) ==
    IF request_user = AnonymousUser THEN ReadOnly(redirect("login"))
                                    ELSE view_outcome

\* user_logout: logout(request) and redirect home.
user_logout(request) ==
    login_required(
        Outcome(HttpResponse(302, "blog-home",
                             {"You have been logged out."}, {}, 0),
                users, posts, comments, AnonymousUser))

\* UserUpdateForm.clean_email: the email is refused when a user whose
\* username is not the submitted one has it.  (A username that did not
\* validate is absent from cleaned_data, and no stored username is Blank.)
clean_email(data) ==
    IF \E u \in users : u.email = data.email /\ u.username # data.username
    THEN {"This email address is already in use."}
    ELSE {}

\* UserUpdateForm(request.POST, instance=instance).errors: both fields are
\* required, clean_email, and User.username is unique among the other rows.
UserUpdateForm(data, instance) ==
    (IF data.username = Blank THEN {"This field is required."}
     ELSE IF \E u \in users : u.username = data.username /\ u.id # instance
     THEN {"A user with that username already exists."}
     ELSE {})
    \cup
    (IF data.email = Blank THEN {"This field is required."}
     ELSE clean_email(data))

\* form.save() of a valid UserUpdateForm: the instance's row gets the
\* form's username and email.
UserUpdateForm_save(data, instance) ==
    {IF u.id = instance
     THEN [u EXCEPT !.username = data.username, !.email = data.email]
     ELSE u : u \in users}

\* profile: the page on GET; on POST the form is saved when it is valid and
\* rendered with its errors when it is not.
profile(request) ==
    login_required(
        IF request.method = "POST"
        THEN LET errors == UserUpdateForm(request.data, request_user)
             IN  IF errors = {}
                 THEN Outcome(HttpResponse(302, "profile",
                                  {"Your profile has been updated!"}, {},
                                  request_user),
                              UserUpdateForm_save(request.data, request_user),
                              posts, comments, session)
                 ELSE ReadOnly(HttpResponse(200, "",
                                  {"Please correct the errors below."},
                                  errors, 0))
        ELSE ReadOnly(render))

\* A request to a blog view: pk is the URL's id, next the ?next= parameter.
BlogRequest(view, method, pk, data, next) ==
    [view |-> view, method |-> method, pk |-> pk, data |-> data,
     next |-> next]

NoData == [content |-> Blank]

\* The client sends request, the view o answers it: the outcome is stored
\* and the response is kept with the request and the user who sent it.
BlogServe(request, o) ==
    /\ users' = o.users
    /\ posts' = o.posts
    /\ comments' = o.comments
    /\ session' = o.session
    /\ pks' = o.pks
    /\ UNCHANGED <<books, next_id, inflight, authors, shelf>>
    /\ reply' = [request |-> request, user |-> request_user,
                 status |-> o.response.status,
                 location |-> o.response.location,
                 messages |-> o.response.messages,
                 errors |-> o.response.errors,
                 object |-> o.response.object]

\* The login page, or a login form with any username and password.
Login ==
    \E request \in
          {BlogRequest("login", "GET", 0, NoData, Blank)} \cup
          {BlogRequest("login", "POST", 0,
                       [username |-> u, password |-> p], n) :
              u \in Usernames \cup {Blank}, p \in Passwords,
              n \in {Blank, "profile"}} :
        BlogServe(request, user_login(request))

Logout ==
    \E request \in {BlogRequest("logout", m, 0, NoData, Blank) :
                       m \in {"GET", "POST"}} :
        BlogServe(request, user_logout(request))

\* The profile page, or a profile form with any username and email.
Profile ==
    \E request \in
          {BlogRequest("profile", "GET", 0, NoData, Blank)} \cup
          {BlogRequest("profile", "POST", 0,
                       [username |-> u, email |-> e], Blank) :
              u \in Usernames \cup {Blank}, e \in Emails \cup {Blank}} :
        BlogServe(request, profile(request))

\* The blog's database with the tests' two users, nobody logged in.
AuthInit ==
    /\ books = {} /\ next_id = 1 /\ inflight = [w \in Workers |-> Idle]
    /\ authors = {} /\ shelf = {}
    /\ users = TestUsers /\ posts = {} /\ comments = {}
    /\ pks = [table \in {"Post", "Comment", "Book"} |-> 1]
    /\ session = AnonymousUser
    /\ reply = [status |-> 0]

AuthNext == Login \/ Logout \/ Profile

AuthSpec == AuthInit /\ [][AuthNext]_vars

-----------------------------------------------------------------------------
(* django_blog: the post and comment views *)

\* Most posts and comments that requests create, those of setUp apart.
MaxCreated == 1

\* The posts and comments created so far.
Created == (pks["Post"] - 2) + (pks["Comment"] - 2)

\* What a client submits as a post: every field, the title left empty, and
\* every field together with an author field the form does not have.
PostData ==
    {[title |-> "Updated Title", content |-> "Updated content"],
     [title |-> Blank, content |-> "Updated content"],
     [title |-> "Updated Title", content |-> "Updated content", author |-> 2]}

\* What a client submits as a comment, likewise with fields the form does
\* not have.
CommentData ==
    {[content |-> "Updated comment content"],
     [content |-> Blank],
     [content |-> "Updated comment content", author |-> 2, post |-> 2]}

NotFound == ReadOnly(HttpResponse(404, "", {}, {}, 0))

\* The rows of table with primary key pk (get_object, get_object_or_404).
get_queryset(table, pk) == {x \in table : x.id = pk}

\* ModelForm of Post with fields = ['title', 'content']: both are required.
PostForm(data) ==
    IF data.title = Blank \/ data.content = Blank
    THEN {"This field is required."} ELSE {}

\* CommentForm: fields = ('content',), required.
CommentForm(data) ==
    IF data.content = Blank THEN {"This field is required."} ELSE {}

\* on_delete=models.CASCADE of Comment.post: deleting a post deletes its
\* comments.
Post_delete(pk) ==
    [posts |-> {x \in posts : x.id # pk},
     comments |-> {c \in comments : c.post # pk}]

\* on_delete=models.CASCADE of Post.author, Comment.author and Comment.post:
\* deleting a user deletes the user's posts, the comments on them and the
\* user's comments.
User_delete(id) ==
    [users |-> {u \in users : u.id # id},
     posts |-> {x \in posts : x.author # id},
     comments |-> {c \in comments :
                      /\ c.author # id
                      /\ \A x \in posts : x.id = c.post => x.author # id}]

\* PostCreateView: LoginRequiredMixin; a valid POST stores a post with the
\* form's title and content and author = request.user (form_valid).
PostCreateView(request) ==
    login_required(
        IF request.method = "POST"
        THEN LET errors == PostForm(request.data)
                 pk == pks["Post"]
             IN  IF errors = {}
                 THEN Outcome(HttpResponse(302, "post-detail",
                                  {"Your post has been created!"}, {}, pk),
                              users,
                              posts \cup
                                {[id |-> pk, title |-> request.data.title,
                                  content |-> request.data.content,
                                  author |-> request_user]},
                              comments, session)
                 ELSE ReadOnly(HttpResponse(200, "", {}, errors, 0))
        ELSE ReadOnly(render))

\* Mutant of test_func: every logged-in user passes.
test_func_AnyUser(object) == TRUE

\* test_func of the update and delete views: request.user is the record's
\* author.
test_func(object) == request_user = object.author

\* Mutant of UserPassesTestMixin: the record is looked up, test_func is not
\* asked.
UserPassesTestMixin_LoginOnly(table, request, view_outcome) ==
    login_required(
        IF get_queryset(table, request.pk) = {} THEN NotFound
                                                ELSE view_outcome)

\* UserPassesTestMixin.dispatch after LoginRequiredMixin.dispatch:
\* test_func() calls get_object(), which raises Http404 when no row has the
\* URL's pk; a user who fails the test gets PermissionDenied.
UserPassesTestMixin(table, request, view_outcome) ==
    login_required(
        IF get_queryset(table, request.pk) = {} THEN NotFound
        ELSE IF \E object \in get_queryset(table, request.pk) :
                    ~test_func(object)
        THEN ReadOnly(HttpResponse(403, "", {}, {}, 0))
        ELSE view_outcome)

\* PostUpdateView: a valid POST of the author saves title and content, and
\* form_valid assigns author = request.user.
PostUpdateView(request) ==
    UserPassesTestMixin(posts, request,
        IF request.method = "POST"
        THEN LET errors == PostForm(request.data)
             IN  IF errors = {}
                 THEN Outcome(HttpResponse(302, "post-detail",
                                  {"Your post has been updated!"}, {},
                                  request.pk),
                              users,
                              {IF x.id = request.pk
                               THEN [x EXCEPT !.title = request.data.title,
                                              !.content = request.data.content,
                                              !.author = request_user]
                               ELSE x : x \in posts},
                              comments, session)
                 ELSE ReadOnly(HttpResponse(200, "", {}, errors, 0))
        ELSE ReadOnly(render))

\* Mutant of PostDeleteView: the post goes, its comments stay.
PostDeleteView_NoCascade(request) ==
    UserPassesTestMixin(posts, request,
        IF request.method = "POST"
        THEN Outcome(HttpResponse(302, "blog-home", {}, {}, request.pk),
                     users, {x \in posts : x.id # request.pk}, comments,
                     session)
        ELSE ReadOnly(render))

\* PostDeleteView: the confirmation page on GET; a POST of the author
\* deletes the post (and what cascades from it) and redirects home.
PostDeleteView(request) ==
    UserPassesTestMixin(posts, request,
        IF request.method = "POST"
        THEN Outcome(HttpResponse(302, "blog-home", {}, {}, request.pk),
                     users, Post_delete(request.pk).posts,
                     Post_delete(request.pk).comments, session)
        ELSE ReadOnly(render))

\* Mutant of CommentCreateView: post and author are taken from the form
\* when it carries them.
CommentCreateView_FieldsFromForm(request) ==
    login_required(
        IF get_queryset(posts, request.pk) = {} THEN NotFound
        ELSE IF request.method = "POST"
        THEN LET errors == CommentForm(request.data)
                 pk == pks["Comment"]
             IN  IF errors = {}
                 THEN Outcome(HttpResponse(302, "post-detail",
                                  {"Your comment has been posted!"}, {}, pk),
                              users, posts,
                              comments \cup
                                {[id |-> pk,
                                  post |-> IF "post" \in DOMAIN request.data
                                           THEN request.data.post
                                           ELSE request.pk,
                                  author |->
                                     IF "author" \in DOMAIN request.data
                                     THEN request.data.author
                                     ELSE request_user,
                                  content |-> request.data.content]},
                              session)
                 ELSE ReadOnly(HttpResponse(200, "", {}, errors, 0))
        ELSE ReadOnly(render))

\* CommentCreateView: LoginRequiredMixin; form_valid (a valid POST) and
\* get_context_data (a GET, an invalid POST) both look the post of the URL
\* up with get_object_or_404; form_valid stores a comment on that post with
\* author = request.user.
CommentCreateView(request) ==
    login_required(
        IF get_queryset(posts, request.pk) = {} THEN NotFound
        ELSE IF request.method = "POST"
        THEN LET errors == CommentForm(request.data)
                 pk == pks["Comment"]
             IN  IF errors = {}
                 THEN Outcome(HttpResponse(302, "post-detail",
                                  {"Your comment has been posted!"}, {}, pk),
                              users, posts,
                              comments \cup
                                {[id |-> pk, post |-> request.pk,
                                  author |-> request_user,
                                  content |-> request.data.content]},
                              session)
                 ELSE ReadOnly(HttpResponse(200, "", {}, errors, 0))
        ELSE ReadOnly(render))

\* CommentUpdateView: a valid POST of the author saves the content.
CommentUpdateView(request) ==
    UserPassesTestMixin(comments, request,
        IF request.method = "POST"
        THEN LET errors == CommentForm(request.data)
             IN  IF errors = {}
                 THEN Outcome(HttpResponse(302, "post-detail",
                                  {"Your comment has been updated!"}, {},
                                  request.pk),
                              users, posts,
                              {IF c.id = request.pk
                               THEN [c EXCEPT !.content = request.data.content]
                               ELSE c : c \in comments},
                              session)
                 ELSE ReadOnly(HttpResponse(200, "", {}, errors, 0))
        ELSE ReadOnly(render))

\* CommentDeleteView: a POST of the author deletes the comment.
CommentDeleteView(request) ==
    UserPassesTestMixin(comments, request,
        IF request.method = "POST"
        THEN Outcome(HttpResponse(302, "post-detail", {}, {}, request.pk),
                     users, posts, {c \in comments : c.id # request.pk},
                     session)
        ELSE ReadOnly(render))

\* The ids a URL may carry: those of setUp's records, of the records that
\* requests create, and one that no record has.
BlogPks == 1..(MaxCreated + 2)

\* The requests to view with the URL ids pk_values and the forms
\* data_values.
BlogRequests(view, pk_values, data_values) ==
    {BlogRequest(view, "GET", pk, NoData, Blank) : pk \in pk_values} \cup
    {BlogRequest(view, "POST", pk, d, Blank) :
        pk \in pk_values, d \in data_values}

\* client.login(username=..., password='Pass123!') of the tests, as the
\* login POST that does the same.
SignIn ==
    \E request \in
          {BlogRequest("login", "POST", 0,
                       [username |-> u, password |-> "Pass123!"], Blank) :
              u \in {"user1", "user2"}} :
        BlogServe(request, user_login(request))

SignOut ==
    BlogServe(BlogRequest("logout", "GET", 0, NoData, Blank),
              user_logout(BlogRequest("logout", "GET", 0, NoData, Blank)))

PostCreate ==
    /\ Created < MaxCreated
    /\ \E request \in BlogRequests("post-create", {0}, PostData) :
          BlogServe(request, PostCreateView(request))

PostUpdate ==
    \E request \in BlogRequests("post-update", BlogPks, PostData) :
        BlogServe(request, PostUpdateView(request))

PostDelete ==
    \E request \in BlogRequests("post-delete", BlogPks, {NoData}) :
        BlogServe(request, PostDeleteView(request))

CommentCreate ==
    /\ Created < MaxCreated
    /\ \E request \in BlogRequests("comment-create", BlogPks, CommentData) :
          BlogServe(request, CommentCreateView(request))

CommentUpdate ==
    \E request \in BlogRequests("comment-update", BlogPks, CommentData) :
        BlogServe(request, CommentUpdateView(request))

CommentDelete ==
    \E request \in BlogRequests("comment-delete", BlogPks, {NoData}) :
        BlogServe(request, CommentDeleteView(request))

\* The database of CommentTests.setUp: two users, user1's post and user1's
\* comment on it.
BlogInit ==
    /\ books = {} /\ next_id = 1 /\ inflight = [w \in Workers |-> Idle]
    /\ authors = {} /\ shelf = {}
    /\ users = TestUsers
    /\ posts = {[id |-> 1, title |-> "Test Post",
                 content |-> "This is test content.", author |-> 1]}
    /\ comments = {[id |-> 1, post |-> 1, author |-> 1,
                    content |-> "This is a test comment."]}
    /\ pks = [table \in {"Post", "Comment", "Book"} |->
                 IF table = "Book" THEN 1 ELSE 2]
    /\ session = AnonymousUser
    /\ reply = [status |-> 0]

\* A later day of the same blog: user2 has written the second post and a
\* comment on it.
BlogLater ==
    /\ books = {} /\ next_id = 1 /\ inflight = [w \in Workers |-> Idle]
    /\ authors = {} /\ shelf = {}
    /\ users = TestUsers
    /\ posts = {[id |-> 1, title |-> "Test Post",
                 content |-> "This is test content.", author |-> 1],
                [id |-> 2, title |-> "Updated Title",
                 content |-> "Updated content", author |-> 2]}
    /\ comments = {[id |-> 1, post |-> 1, author |-> 1,
                    content |-> "This is a test comment."],
                   [id |-> 2, post |-> 2, author |-> 2,
                    content |-> "Updated comment content"]}
    /\ pks = [table \in {"Post", "Comment", "Book"} |->
                 IF table = "Book" THEN 1 ELSE 3]
    /\ session = AnonymousUser
    /\ reply = [status |-> 0]

BlogNext ==
    \/ SignIn
    \/ SignOut
    \/ PostCreate
    \/ PostUpdate
    \/ PostDelete
    \/ CommentCreate
    \/ CommentUpdate
    \/ CommentDelete

BlogSpec == BlogInit /\ [][BlogNext]_vars

-----------------------------------------------------------------------------
(* Deletes that cascade *)

\* on_delete=models.CASCADE of Book.author: deleting an author deletes the
\* author's books.
Author_delete(id) ==
    [authors |-> authors \ {id},
     books |-> {b \in books : b.author # id}]

\* The admin's delete view of a registered model: instance.delete(), which
\* collects and deletes what cascades from the instance.  AuthorAdmin
\* deletes an author of the books API.
AuthorAdmin ==
    \E id \in authors :
        /\ authors' = Author_delete(id).authors
        /\ books' = Author_delete(id).books
        /\ UNCHANGED <<next_id, inflight, users, posts, comments, pks,
                       session, shelf, reply>>

\* A user of the blog is deleted.
UserDelete ==
    \E u \in users :
        /\ users' = User_delete(u.id).users
        /\ posts' = User_delete(u.id).posts
        /\ comments' = User_delete(u.id).comments
        /\ UNCHANGED <<books, next_id, inflight, authors, pks, session,
                       shelf, reply>>

\* The books API's database with the tests' kind of rows: some books, their
\* authors and one author without a book.
LibraryInit ==
    /\ books \in Fixtures \ {Shelf}
    /\ authors = {b.author : b \in books} \cup {PageSize + 1}
    /\ next_id = PageSize + 2
    /\ inflight = [w \in Workers |-> Idle]
    /\ users = {} /\ posts = {} /\ comments = {} /\ shelf = {}
    /\ pks = [table \in {"Post", "Comment", "Book"} |-> 1]
    /\ session = AnonymousUser
    /\ reply = [status |-> 0]

\* The blog's requests go to the blog, whose database has no Author table.
CascadeNext ==
    \/ AuthorAdmin
    \/ UserDelete
    \/ (authors = {} /\ SignIn)
    \/ (authors = {} /\ SignOut)
    \/ (authors = {} /\ PostCreate)
    \/ (authors = {} /\ PostUpdate)
    \/ (authors = {} /\ PostDelete)
    \/ (authors = {} /\ CommentCreate)
    \/ (authors = {} /\ CommentUpdate)
    \/ (authors = {} /\ CommentDelete)

\* Started from either project's database.
CascadeSpec ==
    (BlogInit \/ BlogLater \/ LibraryInit) /\ [][CascadeNext]_vars

-----------------------------------------------------------------------------
(* advanced_features_and_security: bookshelf/views.py *)

\* Most books that are ever created on the shelf.
MaxShelf == 2

Permissions == {"can_view", "can_create", "can_edit", "can_delete"}

\* request.POST of the book form: every field, and the title left out
\* (request.POST.get('title') is None).
ShelfData ==
    {[title |-> t, author |-> "author", publication_year |-> "2020",
      isbn |-> "isbn", description |-> Blank] : t \in {"title", Blank}}

\* Mutant of permission_required: holding any bookshelf permission is enough.
permission_required_AnyPermission(perm, request, view_responses) ==
    IF request.perms # {}
    THEN view_responses
    ELSE {[response |-> HttpResponse(403, "", {}, {}, 0), shelf |-> shelf]}

\* @permission_required('bookshelf.<perm>', raise_exception=True): a user
\* without the permission gets PermissionDenied (403), the view does not run.
permission_required(perm, request, view_responses) ==
    IF perm \in request.perms
    THEN view_responses
    ELSE {[response |-> HttpResponse(403, "", {}, {}, 0), shelf |-> shelf]}

\* The view answers resp and leaves the table as it is.
Shown(resp) == {[response |-> resp, shelf |-> shelf]}

\* Book.objects.create(...) and book.save() with the POSTed values: the row
\* is written; with a value left out the write either goes through or fails
\* on a constraint of the Book model, and the request ends in a server error.
Book_save(row, to) ==
    {[response |-> HttpResponse(302, to, {"successfully!"}, {}, row.id),
      shelf |-> {b \in shelf : b.id # row.id} \cup {row}]}
    \cup
    (IF row.title = Blank
     THEN {[response |-> HttpResponse(500, "", {}, {}, 0), shelf |-> shelf]}
     ELSE {})

\* The row of the form's values under primary key pk.
BookRow(pk, data) ==
    [id |-> pk, title |-> data.title, author |-> data.author,
     publication_year |-> data.publication_year, isbn |-> data.isbn,
     description |-> data.description]

book_list(request) ==
    permission_required("can_view", request, Shown(render))

book_create(request) ==
    permission_required("can_create", request,
        IF request.method = "POST"
        THEN Book_save(BookRow(pks["Book"], request.data), "book_list")
        ELSE Shown(render))

book_edit(request) ==
    permission_required("can_edit", request,
        IF get_queryset(shelf, request.pk) = {}
        THEN Shown(HttpResponse(404, "", {}, {}, 0))
        ELSE IF request.method = "POST"
        THEN Book_save(BookRow(request.pk, request.data), "book_list")
        ELSE Shown(render))

book_delete(request) ==
    permission_required("can_delete", request,
        IF get_queryset(shelf, request.pk) = {}
        THEN Shown(HttpResponse(404, "", {}, {}, 0))
        ELSE IF request.method = "POST"
        THEN {[response |-> HttpResponse(302, "book_list", {"successfully!"},
                                         {}, request.pk),
               shelf |-> {b \in shelf : b.id # request.pk}]}
        ELSE Shown(render))

\* The requests to view, each by a user who holds the permissions perms
\* (none for a client that is not logged in).
ShelfRequests(view, pk_values, data_values) ==
    {[view |-> view, method |-> "GET", pk |-> pk, data |-> NoData,
      perms |-> perms] : pk \in pk_values, perms \in SUBSET Permissions}
    \cup
    {[view |-> view, method |-> "POST", pk |-> pk, data |-> d,
      perms |-> perms] :
        pk \in pk_values, d \in data_values, perms \in SUBSET Permissions}

\* The view answers request with one of outcomes.
ShelfServe(request, outcomes) ==
    \E o \in outcomes :
        /\ shelf' = o.shelf
        /\ pks' = [pks EXCEPT !["Book"] =
                      IF \A b \in o.shelf : b.id < @ THEN @ ELSE @ + 1]
        /\ reply' = [request |-> request, user |-> AnonymousUser,
                     status |-> o.response.status,
                     location |-> o.response.location,
                     messages |-> o.response.messages,
                     errors |-> o.response.errors,
                     object |-> o.response.object]
        /\ UNCHANGED <<books, next_id, inflight, authors, users, posts,
                       comments, session>>

BookList ==
    \E request \in ShelfRequests("book_list", {0}, {NoData}) :
        ShelfServe(request, book_list(request))

BookCreate ==
    /\ pks["Book"] <= MaxShelf
    /\ \E request \in ShelfRequests("book_create", {0}, ShelfData) :
          ShelfServe(request, book_create(request))

BookEdit ==
    \E request \in ShelfRequests("book_edit", 1..(MaxShelf + 1), ShelfData) :
        ShelfServe(request, book_edit(request))

BookDelete ==
    \E request \in ShelfRequests("book_delete", 1..(MaxShelf + 1), {NoData}) :
        ShelfServe(request, book_delete(request))

ShelfInit ==
    /\ books = {} /\ next_id = 1 /\ inflight = [w \in Workers |-> Idle]
    /\ authors = {} /\ users = {} /\ posts = {} /\ comments = {}
    /\ shelf = {}
    /\ pks = [table \in {"Post", "Comment", "Book"} |-> 1]
    /\ session = AnonymousUser
    /\ reply = [status |-> 0]

ShelfNext == BookList \/ BookCreate \/ BookEdit \/ BookDelete

ShelfSpec == ShelfInit /\ [][ShelfNext]_vars

-----------------------------------------------------------------------------
(* Properties of the account views *)

\* The users with these credentials.
WithCredentials(data) ==
    {u \in users : u.username = data.username /\ u.password = data.password}

C26_EmailUniqueButOwn ==
    [][LET request == reply'.request
           data == request.data
           taken == \E u \in users : u.id # session /\ u.email = data.email
       IN  (/\ request.view = "profile" /\ request.method = "POST"
            /\ session # AnonymousUser
            /\ data.username # Blank /\ data.email # Blank
            /\ ~ \E u \in users : u.id # session
                                  /\ u.username = data.username) =>
               /\ \A u \in users : u.id # session => u \in users'
               /\ IF taken
                  THEN /\ "This email address is already in use."
                             \in reply'.errors
                       /\ users' = users
                  ELSE /\ reply'.errors = {}
                       /\ \E u \in users' : /\ u.id = session
                                            /\ u.username = data.username
                                            /\ u.email = data.email]_vars

-----------------------------------------------------------------------------
(* Properties of the post and comment views *)

\* Nothing stored in the blog changes in this step.
BlogUnchanged == users' = users /\ posts' = posts /\ comments' = comments

\* The stored record an update or delete request names, if there is one.
Named(request) ==
    get_queryset(IF request.view \in {"post-update", "post-delete"}
                 THEN posts ELSE comments, request.pk)

C29_AuthorNeverChanges ==
    [][/\ \A x \in posts : \A y \in posts' :
             x.id = y.id => y.author = x.author
       /\ \A y \in posts' :
             get_queryset(posts, y.id) = {} => y.author = session]_vars

\* user2 created a post and then updated it; it is still user2's.
C29_Witness ==
    /\ reply.status = 302 /\ reply.request.view = "post-update"
    /\ reply.user = 2
    /\ \E x \in posts : x.id = reply.request.pk /\ x.author = 2

-----------------------------------------------------------------------------
(* Properties of the foreign keys *)

IdsOf(table) == {x.id : x \in table}

\* Every book's author, every post's author and every comment's post and
\* author is stored.
Referenced ==
    /\ \A b \in books : b.author \in authors
    /\ \A x \in posts : x.author \in IdsOf(users)
    /\ \A c \in comments : c.author \in IdsOf(users) /\ c.post \in IdsOf(posts)

\* C23: in every state every book references a stored author and every
\* post and comment a stored user and post; the step that deletes an
\* author deletes exactly the author's books, the step that deletes a post
\* exactly the post and its comments, the step that deletes a user exactly
\* the user, the user's posts, the comments on them and the user's comments.
C23_ReferencesAndCascade ==
    [][LET goneAuthors == authors \ authors'
           goneUsers == IdsOf(users) \ IdsOf(users')
           gonePosts == IdsOf(posts) \ IdsOf(posts')
       IN  /\ Referenced /\ Referenced'
           /\ goneAuthors # {} =>
                 books' = {b \in books : b.author \notin goneAuthors}
           /\ goneUsers # {} =>
                 /\ posts' = {x \in posts : x.author \notin goneUsers}
                 /\ comments' =
                       {c \in comments :
                           /\ c.author \notin goneUsers
                           /\ \A x \in posts :
                                 x.id = c.post => x.author \notin goneUsers}
           /\ (goneUsers = {} /\ gonePosts # {}) =>
                 /\ users' = users
                 /\ posts' = {x \in posts : x.id \notin gonePosts}
                 /\ Cardinality(gonePosts) = 1
                 /\ comments' = {c \in comments : c.post \notin gonePosts}]_vars

\* A post that had a comment was deleted by its author; the comment on the
\* other post is still stored and none is left on the deleted one.
C23_Witness ==
    /\ reply.status = 302 /\ reply.request.view = "post-delete"
    /\ reply.request.pk = 1
    /\ comments # {}
    /\ \A c \in comments : c.post \in IdsOf(posts)
    /\ \E c \in comments : c.id > 1

-----------------------------------------------------------------------------
(* Properties of the bookshelf views *)

\* The permission each bookshelf view asks for.
Required(view) ==
    CASE view = "book_list" -> "can_view"
      [] view = "book_create" -> "can_create"
      [] view = "book_edit" -> "can_edit"
      [] view = "book_delete" -> "can_delete"

\* C27: a request to a bookshelf view by a user who lacks the view's own
\* permission is answered 403 and leaves the books as they are, whatever
\* other permissions the user holds; a book appears only by a POST to
\* book_create, changes only by a POST to book_edit and disappears only by a
\* POST to book_delete, each from a user holding that view's permission; a
\* GET never changes the books.
C27_PermissionPerView ==
    [][LET request == reply'.request
           permitted == Required(request.view) \in request.perms
           by(view) == /\ request.view = view /\ request.method = "POST"
                       /\ permitted
       IN  /\ ~permitted => reply'.status = 403 /\ shelf' = shelf
           /\ request.method = "GET" => shelf' = shelf
           /\ \A b \in shelf' :
                 get_queryset(shelf, b.id) = {} => by("book_create")
           /\ \A b \in shelf :
                 get_queryset(shelf', b.id) = {} => by("book_delete")
           /\ \A b \in shelf : \A c \in shelf' :
                 (b.id = c.id /\ b # c) => by("book_edit")]_vars

\* A user holding every permission but can_delete POSTed to book_delete for
\* a stored book and was answered 403.
C27_Witness ==
    /\ reply.status = 403
    /\ reply.request.view = "book_delete" /\ reply.request.method = "POST"
    /\ reply.request.perms = Permissions \ {"can_delete"}
    /\ get_queryset(shelf, reply.request.pk) # {}

====
